---- MODULE Spec2Model ----
(***************************************************************************)
(* Model of the Form Builder user filestore client                         *)
(* (fb-user-filestore-client.js, args-object version).                     *)
(*                                                                         *)
(* The client is a subclass of the JWT base client.  A caller constructs   *)
(* one instance and then invokes fetch / store / storeFromPath on it.      *)
(* Each invocation is a chain of promise reactions; the transport          *)
(* (sendGet / sendPost) and the filesystem (readFile) are the environment  *)
(* and settle their promises nondeterministically.                         *)
(***************************************************************************)
EXTENDS Integers, Sequences, FiniteSets, TLC

VARIABLES scope, given, client, thrown, heap, calls, requests

vars == <<scope, given, client, thrown, heap, calls, requests>>

----------------------------------------------------------------------------
(* Bounds of the model *)

\* number of invocations the caller makes on the instance
MaxCalls == 1

\* number of argument objects the caller allocates
MaxArgs == 1

----------------------------------------------------------------------------
(* JavaScript values *)

\* a scalar that may be missing: absent key / undefined, a number or a string
Absent == [t |-> "absent", n |-> 0, s |-> ""]
Num(n) == [t |-> "number", n |-> n, s |-> ""]
Str(s) == [t |-> "string", n |-> 0, s |-> s]

\* JavaScript ToBoolean on a scalar: undefined, 0 and '' are falsy
Truthy(v) ==
  CASE v.t = "absent" -> FALSE
    [] v.t = "number" -> v.n # 0
    [] v.t = "string" -> v.s # ""

\* the JavaScript expression  a || b
OrElse(a, b) == IF Truthy(a) THEN a ELSE b

\* an array of strings that may be missing
NoArray == [t |-> "absent", a |-> <<>>]
Arr(a) == [t |-> "array", a |-> a]

\* file content: a string (sequence of code points), a Buffer (sequence of
\* bytes) or undefined
NoFile == [k |-> "undefined", d |-> <<>>]
Text(cps) == [k |-> "string", d |-> cps]
Buf(bytes) == [k |-> "buffer", d |-> bytes]

----------------------------------------------------------------------------
(* Buffer.from(string): UTF-8 encoding of a sequence of code points *)

\* a surrogate that stands alone in the string is encoded as U+FFFD
Utf8Char(cp) ==
  IF cp >= 55296 /\ cp <= 57343 THEN <<239, 191, 189>>
  ELSE IF cp < 128 THEN <<cp>>
  ELSE IF cp < 2048 THEN <<192 + (cp \div 64), 128 + (cp % 64)>>
  ELSE IF cp < 65536
    THEN <<224 + (cp \div 4096), 128 + ((cp \div 64) % 64), 128 + (cp % 64)>>
  ELSE <<240 + (cp \div 262144), 128 + ((cp \div 4096) % 64),
         128 + ((cp \div 64) % 64), 128 + (cp % 64)>>

RECURSIVE Utf8Encode(_)
Utf8Encode(cps) ==
  IF cps = <<>> THEN <<>> ELSE Utf8Char(Head(cps)) \o Utf8Encode(Tail(cps))

(* buffer.toString(): UTF-8 decoding, an ill-formed sequence becomes U+FFFD *)

Replacement == 65533

\* number of continuation bytes a lead byte announces (0: not a lead byte)
Utf8Need(b) ==
  IF b >= 194 /\ b <= 223 THEN 1
  ELSE IF b >= 224 /\ b <= 239 THEN 2
  ELSE IF b >= 240 /\ b <= 244 THEN 3
  ELSE 0

\* is byte c acceptable as the i-th continuation byte after lead byte b
Utf8Cont(b, i, c) ==
  IF i > 1 THEN c >= 128 /\ c <= 191
  ELSE IF b = 224 THEN c >= 160 /\ c <= 191
  ELSE IF b = 237 THEN c >= 128 /\ c <= 159
  ELSE IF b = 240 THEN c >= 144 /\ c <= 191
  ELSE IF b = 244 THEN c >= 128 /\ c <= 143
  ELSE c >= 128 /\ c <= 191

\* how many of the announced continuation bytes are present and well formed
RECURSIVE Utf8Matched(_, _, _)
Utf8Matched(bytes, i, need) ==
  IF i > need \/ Len(bytes) < i + 1 THEN i - 1
  ELSE IF Utf8Cont(bytes[1], i, bytes[i + 1])
    THEN Utf8Matched(bytes, i + 1, need)
  ELSE i - 1

Utf8Value(bytes, need) ==
  CASE need = 1 -> (bytes[1] - 192) * 64 + (bytes[2] - 128)
    [] need = 2 -> (bytes[1] - 224) * 4096 + (bytes[2] - 128) * 64
                     + (bytes[3] - 128)
    [] need = 3 -> (bytes[1] - 240) * 262144 + (bytes[2] - 128) * 4096
                     + (bytes[3] - 128) * 64 + (bytes[4] - 128)

RECURSIVE Utf8Decode(_)
Utf8Decode(bytes) ==
  IF bytes = <<>> THEN <<>>
  ELSE IF bytes[1] < 128 THEN <<bytes[1]>> \o Utf8Decode(Tail(bytes))
  ELSE LET need == Utf8Need(bytes[1])
           got == Utf8Matched(bytes, 1, need)
       IN IF need > 0 /\ got = need
            THEN <<Utf8Value(bytes, need)>>
                   \o Utf8Decode(SubSeq(bytes, need + 2, Len(bytes)))
          ELSE <<Replacement>>
                 \o Utf8Decode(SubSeq(bytes, got + 2, Len(bytes)))

----------------------------------------------------------------------------
(* Base64: a base64 string is a sequence of alphabet indices 0..63, with   *)
(* Pad standing for the character '='                                      *)

Pad == 64

\* buffer.toString('base64')
RECURSIVE Base64Encode(_)
Base64Encode(bytes) ==
  CASE Len(bytes) = 0 -> <<>>
    [] Len(bytes) = 1 ->
         <<bytes[1] \div 4, (bytes[1] % 4) * 16, Pad, Pad>>
    [] Len(bytes) = 2 ->
         <<bytes[1] \div 4, (bytes[1] % 4) * 16 + (bytes[2] \div 16),
           (bytes[2] % 16) * 4, Pad>>
    [] OTHER ->
         <<bytes[1] \div 4, (bytes[1] % 4) * 16 + (bytes[2] \div 16),
           (bytes[2] % 16) * 4 + (bytes[3] \div 64), bytes[3] % 64>>
           \o Base64Encode(SubSeq(bytes, 4, Len(bytes)))

\* the characters of a base64 string up to its first '='
RECURSIVE Base64Body(_)
Base64Body(chars) ==
  IF chars = <<>> \/ Head(chars) = Pad THEN <<>>
  ELSE <<Head(chars)>> \o Base64Body(Tail(chars))

RECURSIVE Base64Bytes(_)
Base64Bytes(sx) ==
  CASE Len(sx) <= 1 -> <<>>
    [] Len(sx) = 2 -> <<sx[1] * 4 + (sx[2] \div 16)>>
    [] Len(sx) = 3 -> <<sx[1] * 4 + (sx[2] \div 16),
                        (sx[2] % 16) * 16 + (sx[3] \div 4)>>
    [] OTHER -> <<sx[1] * 4 + (sx[2] \div 16),
                  (sx[2] % 16) * 16 + (sx[3] \div 4),
                  (sx[3] % 4) * 64 + sx[4]>>
                  \o Base64Bytes(SubSeq(sx, 5, Len(sx)))

\* Buffer.from(string, 'base64')
Base64Decode(chars) == Base64Bytes(Base64Body(chars))

----------------------------------------------------------------------------
(* Errors *)

NoError == [name |-> "", code |-> Absent, message |-> Absent]
ErrorOf(name, code, message) ==
  [name |-> name, code |-> code, message |-> message]

\* class FBUserFileStoreClientError extends FBJWTClient.prototype.ErrorClass
FBUserFileStoreClientError == "FBUserFileStoreClientError"

\* the error class the base client uses when none is handed to it
FBJWTClientError == "FBJWTClientError"

\* a TypeError raised by the runtime (property read of undefined, or
\* Buffer.from of a value that is neither string nor buffer)
TypeError == ErrorOf("TypeError", Absent, Str("ERR_INVALID_ARG_TYPE"))

----------------------------------------------------------------------------
(* Construction *)

defaultMaxSize == 10 * 1024 * 1024
defaultExpires == 28

NoOptions == [t |-> "absent", maxSize |-> Absent, expires |-> Absent]
Options(maxSize, expires) ==
  [t |-> "object", maxSize |-> maxSize, expires |-> expires]

NoClient ==
  [constructed |-> FALSE, serviceSecret |-> Absent, serviceToken |-> Absent,
   serviceSlug |-> Absent, serviceUrl |-> Absent, errorClass |-> "",
   maxSize |-> Absent, expires |-> Absent]

\* constructor of the base client: rejects a missing secret, token, slug or
\* url, in that order, with an error of the class it was handed
FBJWTClient(serviceSecret, serviceToken, serviceSlug, microserviceUrl, errorClass) ==
  CASE serviceSecret.t = "absent" ->
         [error |-> ErrorOf(errorClass, Str("ENOSERVICESECRET"),
                            Str("No service secret passed to client")),
          instance |-> NoClient]
    [] serviceSecret.t # "absent" /\ serviceToken.t = "absent" ->
         [error |-> ErrorOf(errorClass, Str("ENOSERVICETOKEN"),
                            Str("No service token passed to client")),
          instance |-> NoClient]
    [] serviceSecret.t # "absent" /\ serviceToken.t # "absent"
       /\ serviceSlug.t = "absent" ->
         [error |-> ErrorOf(errorClass, Str("ENOSERVICESLUG"),
                            Str("No service slug passed to client")),
          instance |-> NoClient]
    [] serviceSecret.t # "absent" /\ serviceToken.t # "absent"
       /\ serviceSlug.t # "absent" /\ microserviceUrl.t = "absent" ->
         [error |-> ErrorOf(errorClass, Str("ENOMICROSERVICEURL"),
                            Str("No microservice url passed to client")),
          instance |-> NoClient]
    [] OTHER ->
         [error |-> NoError,
          instance |-> [constructed |-> TRUE,
                        serviceSecret |-> serviceSecret,
                        serviceToken |-> serviceToken,
                        serviceSlug |-> serviceSlug,
                        serviceUrl |-> microserviceUrl,
                        errorClass |-> errorClass,
                        maxSize |-> Absent, expires |-> Absent]]

\* a constructor that hands the base constructor no error class
constructorPlainError(serviceSecret, serviceToken, serviceSlug, userFileStoreUrl, options) ==
  LET base == FBJWTClient(serviceSecret, serviceToken, serviceSlug,
                          userFileStoreUrl, FBJWTClientError)
  IN IF base.error # NoError THEN base
     ELSE [error |-> NoError,
           instance |->
             [base.instance EXCEPT
                !.maxSize = OrElse(options.maxSize, Num(defaultMaxSize)),
                !.expires = OrElse(options.expires, Num(defaultExpires))]]

\* a constructor that ignores the options it is given
constructorIgnoringOptions(serviceSecret, serviceToken, serviceSlug, userFileStoreUrl, options) ==
  LET base == FBJWTClient(serviceSecret, serviceToken, serviceSlug,
                          userFileStoreUrl, FBUserFileStoreClientError)
  IN IF base.error # NoError THEN base
     ELSE [error |-> NoError,
           instance |->
             [base.instance EXCEPT
                !.maxSize = Num(defaultMaxSize),
                !.expires = Num(defaultExpires)]]

\* constructor (serviceSecret, serviceToken, serviceSlug, userFileStoreUrl,
\* options = {}): the base constructor runs first; when it throws nothing
\* else runs
constructor(serviceSecret, serviceToken, serviceSlug, userFileStoreUrl, options) ==
  LET base == FBJWTClient(serviceSecret, serviceToken, serviceSlug,
                          userFileStoreUrl, FBUserFileStoreClientError)
  IN IF base.error # NoError THEN base
     ELSE [error |-> NoError,
           instance |->
             [base.instance EXCEPT
                !.maxSize = OrElse(options.maxSize, Num(defaultMaxSize)),
                !.expires = OrElse(options.expires, Num(defaultExpires))]]

----------------------------------------------------------------------------
(* Requests handed to the transport and what it answers *)

\* endpoint urls with the two templates taken for each other
endpointsSwapped ==
  [fetch |-> "/service/:serviceSlug/user/:userId",
   store |-> "/service/:serviceSlug/user/:userId/:fingerprint"]

\* endpoint urls
endpoints ==
  [fetch |-> "/service/:serviceSlug/user/:userId/:fingerprint",
   store |-> "/service/:serviceSlug/user/:userId"]

\* upload policy: an object whose keys may be missing, or no object at all
NoPolicy ==
  [t |-> "absent", max_size |-> Absent, expires |-> Absent,
   allowed_types |-> NoArray]
Policy(max_size, expires, allowed_types) ==
  [t |-> "object", max_size |-> max_size, expires |-> expires,
   allowed_types |-> allowed_types]

\* a base64 string that may be missing
NoBase64 == [t |-> "absent", d |-> <<>>]
Base64(chars) == [t |-> "string", d |-> chars]

\* encryptUserIdAndToken of the base client: an opaque value
encryptUserIdAndToken(userId, userToken) ==
  [cipher |-> <<userId, userToken>>]

\* the inputs encryptUserIdAndToken fails on, standing for whatever the
\* cipher of the base client cannot take, and the error it throws then
encryptThrows(userId, userToken) == userToken = "badUserToken"
EncryptError == ErrorOf("Error", Str("EENCRYPT"), Str("encryption failed"))

\* the mapping the transport resolves with (decoded JSON body)
Json(fingerprint, url, size, type, date, file) ==
  [fingerprint |-> fingerprint, url |-> url, size |-> size, type |-> type,
   date |-> date, file |-> file]
NoJson == Json(Absent, Absent, Absent, Absent, Absent, NoBase64)

\* throwRequestError of the base client: raises the client's error class
\* carrying code and message
throwRequestError(instance, code, message) ==
  ErrorOf(instance.errorClass, code, message)

(* Promises: pending, fulfilled with a value or rejected with an error.    *)
(* "thrown" is a synchronous throw out of the method itself.               *)

Unsettled ==
  [state |-> "pending", kind |-> "none", text |-> <<>>, json |-> NoJson,
   error |-> NoError]
FulfilledUndefined == [Unsettled EXCEPT !.state = "fulfilled",
                                        !.kind = "undefined"]
FulfilledText(cps) == [Unsettled EXCEPT !.state = "fulfilled",
                                        !.kind = "string", !.text = cps]
FulfilledJson(json) == [Unsettled EXCEPT !.state = "fulfilled",
                                         !.kind = "object", !.json = json]
Rejected(error) == [Unsettled EXCEPT !.state = "rejected", !.kind = "error",
                                     !.error = error]
Thrown(error) == [Unsettled EXCEPT !.state = "thrown", !.kind = "error",
                                   !.error = error]

Settled(promise) == promise.state # "pending"

----------------------------------------------------------------------------
(* fetch *)

\* a fetch that puts the token where the user id belongs in the context
fetchRequestTokenInContext(instance, args, logger) ==
  [method |-> "GET",
   url |-> endpoints.fetch,
   context |-> [serviceSlug |-> instance.serviceSlug,
                userId |-> Str(args.userToken),
                fingerprint |-> args.fingerprint],
   payload |-> [encrypted_user_id_and_token |->
                  encryptUserIdAndToken(args.userId, args.userToken),
                file |-> NoBase64,
                policy |-> NoPolicy],
   logger |-> logger]

\* a fetch that builds the context of store, without the fingerprint
fetchRequestStoreContext(instance, args, logger) ==
  [method |-> "GET",
   url |-> endpoints.fetch,
   context |-> [serviceSlug |-> instance.serviceSlug,
                userId |-> Str(args.userId),
                fingerprint |-> Absent],
   payload |-> [encrypted_user_id_and_token |->
                  encryptUserIdAndToken(args.userId, args.userToken),
                file |-> NoBase64,
                policy |-> NoPolicy],
   logger |-> logger]

\* fetch (args, logger), up to the call of sendGet: the request it hands over
fetchRequest(instance, args, logger) ==
  [method |-> "GET",
   url |-> endpoints.fetch,
   context |-> [serviceSlug |-> instance.serviceSlug,
                userId |-> Str(args.userId),
                fingerprint |-> args.fingerprint],
   payload |-> [encrypted_user_id_and_token |->
                  encryptUserIdAndToken(args.userId, args.userToken),
                file |-> NoBase64,
                policy |-> NoPolicy],
   logger |-> logger]

\* this.encryptUserIdAndToken(userId, userToken) throws out of fetch
fetchThrows(args) == encryptThrows(args.userId, args.userToken)

\* a fetch that decodes base64 and keeps the low seven bits of every byte
fetchThenAscii(json) ==
  IF json.file.t = "absent" THEN Rejected(TypeError)
  ELSE FulfilledText([i \in DOMAIN Base64Decode(json.file.d) |->
                        Base64Decode(json.file.d)[i] % 128])

\* a fetch that decodes base64 but reads the bytes one character per byte
fetchThenLatin1(json) ==
  IF json.file.t = "absent" THEN Rejected(TypeError)
  ELSE FulfilledText(Base64Decode(json.file.d))

\* .then(json => Buffer.from(json.file, 'base64').toString())
fetchThen(json) ==
  IF json.file.t = "absent" THEN Rejected(TypeError)
  ELSE FulfilledText(Utf8Decode(Base64Decode(json.file.d)))

----------------------------------------------------------------------------
(* getFetchUrl *)

\* a url: the address of the service and the segments of the path
NoUrl == [base |-> Absent, path |-> <<>>]

\* a segment of a url template: a literal, or a ':name' placeholder
Segment(param, name) == [param |-> param, name |-> name]

\* the segments of the url templates
compile(template) ==
  CASE template = "/service/:serviceSlug/user/:userId/:fingerprint" ->
         <<Segment(FALSE, "service"), Segment(TRUE, "serviceSlug"),
           Segment(FALSE, "user"), Segment(TRUE, "userId"),
           Segment(TRUE, "fingerprint")>>
    [] template = "/service/:serviceSlug/user/:userId" ->
         <<Segment(FALSE, "service"), Segment(TRUE, "serviceSlug"),
           Segment(FALSE, "user"), Segment(TRUE, "userId")>>

\* createEndpointUrl of the base client: the template with every ':name'
\* placeholder replaced by the value of that name in the context
createEndpointUrl(instance, template, context) ==
  [base |-> instance.serviceUrl,
   path |-> [i \in DOMAIN compile(template) |->
               IF compile(template)[i].param
                 THEN context[compile(template)[i].name]
               ELSE Str(compile(template)[i].name)]]

\* getFetchUrl (userId, fingerprint)
getFetchUrl(instance, userId, fingerprint) ==
  createEndpointUrl(instance, endpoints.fetch,
                    [serviceSlug |-> instance.serviceSlug,
                     userId |-> Str(userId),
                     fingerprint |-> Str(fingerprint)])

----------------------------------------------------------------------------
(* store *)

\* a store that takes every character of a string for one byte
storeFileBinary(file) ==
  Base64(Base64Encode(IF file.k = "buffer" THEN file.d
                      ELSE [i \in DOMAIN file.d |-> file.d[i] % 256]))

\* if (!file.buffer) file = Buffer.from(file);  file.toString('base64')
storeFile(file) ==
  Base64(Base64Encode(IF file.k = "buffer" THEN file.d
                      ELSE Utf8Encode(file.d)))

\* a policy normalisation that always sends the instance's limits
storePolicyInstanceLimits(instance, policy) ==
  Policy(instance.maxSize, instance.expires,
         IF policy.allowed_types.t = "array"
            /\ Len(policy.allowed_types.a) = 0
           THEN NoArray ELSE policy.allowed_types)

\* a policy normalisation that sends an empty allowed_types as it is
storePolicyKeepingEmpty(instance, policy) ==
  Policy(IF ~Truthy(policy.max_size) THEN instance.maxSize
         ELSE policy.max_size,
         IF ~Truthy(policy.expires) THEN instance.expires
         ELSE policy.expires,
         policy.allowed_types)

\* policy = Object.assign({}, policy) with the defaults filled in and an
\* empty allowed_types deleted
storePolicy(instance, policy) ==
  Policy(IF ~Truthy(policy.max_size) THEN instance.maxSize
         ELSE policy.max_size,
         IF ~Truthy(policy.expires) THEN instance.expires
         ELSE policy.expires,
         IF policy.allowed_types.t = "array"
            /\ Len(policy.allowed_types.a) = 0
           THEN NoArray ELSE policy.allowed_types)

\* a store that posts to the url of fetch
storeRequestFetchUrl(instance, args, logger) ==
  [method |-> "POST",
   url |-> endpoints.fetch,
   context |-> [serviceSlug |-> instance.serviceSlug,
                userId |-> Str(args.userId),
                fingerprint |-> Absent],
   payload |-> [encrypted_user_id_and_token |->
                  encryptUserIdAndToken(args.userId, args.userToken),
                file |-> storeFile(args.file),
                policy |-> storePolicy(instance, args.policy)],
   logger |-> logger]

\* store (args, logger), up to the call of sendPost
storeRequest(instance, args, logger) ==
  [method |-> "POST",
   url |-> endpoints.store,
   context |-> [serviceSlug |-> instance.serviceSlug,
                userId |-> Str(args.userId),
                fingerprint |-> Absent],
   payload |-> [encrypted_user_id_and_token |->
                  encryptUserIdAndToken(args.userId, args.userToken),
                file |-> storeFile(args.file),
                policy |-> storePolicy(instance, args.policy)],
   logger |-> logger]

\* what store throws before anything is sent: reading file.buffer of an
\* undefined file is a TypeError, and after it encryptUserIdAndToken may
\* throw
storeError(args) ==
  CASE args.file.k = "undefined" -> TypeError
    [] encryptThrows(args.userId, args.userToken) -> EncryptError
    [] OTHER -> NoError

\* a store that goes on when the encryption has failed
storeThrowsFileOnly(args) == args.file.k = "undefined"

storeThrows(args) == storeError(args) # NoError

\* store that rejects only when the fingerprint key is missing
storeThenUndefinedOnly(instance, result) ==
  IF result.fingerprint.t = "absent"
    THEN Rejected(throwRequestError(instance, Num(500),
                                    Str("ENOFINGERPRINT")))
  ELSE FulfilledJson(result)

\* store that hands back the fingerprint alone
storeThenFingerprintOnly(instance, result) ==
  IF ~Truthy(result.fingerprint)
    THEN Rejected(throwRequestError(instance, Num(500),
                                    Str("ENOFINGERPRINT")))
  ELSE FulfilledJson(Json(result.fingerprint, Absent, Absent, Absent,
                          Absent, NoBase64))

\* .then(result => { if (!result.fingerprint) throwRequestError(500,
\* 'ENOFINGERPRINT'); return result })
storeThen(instance, result) ==
  IF ~Truthy(result.fingerprint)
    THEN Rejected(throwRequestError(instance, Num(500),
                                    Str("ENOFINGERPRINT")))
  ELSE FulfilledJson(result)

----------------------------------------------------------------------------
(* storeFromPath *)

\* the errors readFile rejects with
ENOENT == ErrorOf("Error", Str("ENOENT"), Str("no such file or directory"))
EISDIR ==
  ErrorOf("Error", Str("EISDIR"), Str("illegal operation on a directory"))

\* what the filesystem holds: the bytes of a file, a directory, or nothing
\* at that path
FileSystem(path) ==
  CASE path = "/test-data/test-file" ->
         [found |-> TRUE, data |-> <<116, 195, 169>>, error |-> NoError]
    [] path = "/test-data/image.png" ->
         [found |-> TRUE, data |-> <<137, 80, 0, 255>>, error |-> NoError]
    [] path = "/test-data" ->
         [found |-> FALSE, data |-> <<>>, error |-> EISDIR]
    [] OTHER -> [found |-> FALSE, data |-> <<>>, error |-> ENOENT]

NoRead == [state |-> "none", data |-> <<>>, error |-> NoError]

\* readFile(filePath): the promise the filesystem settles
readFile(path) ==
  IF FileSystem(path).found
    THEN [state |-> "fulfilled", data |-> FileSystem(path).data,
          error |-> NoError]
  ELSE [state |-> "rejected", data |-> <<>>,
        error |-> FileSystem(path).error]

----------------------------------------------------------------------------
(* What the caller passes and what the environment answers.                *)
(* A run is explored in one of four scopes: "wide" is a single invocation  *)
(* over the full ranges below, "narrow" is up to MaxCalls invocations on   *)
(* up to MaxArgs argument objects over a few representatives of each       *)
(* range, "concurrent" is one invocation and one argument object more than *)
(* that, every invocation with an argument object of its own, for two      *)
(* users, two files and one answer of each kind, "shared" is one           *)
(* invocation more than MaxCalls, all on the one argument object for store *)
(* that they share, for the same files and answers, "roundTrip" is a store *)
(* of a string and a fetch, which the filestore may answer with what the   *)
(* store sent                                                              *)

Scopes == {"wide", "narrow", "concurrent", "shared", "roundTrip"}

\* the range a value is drawn from in the scope of the run
Drawn(all, few) == IF scope = "wide" THEN all ELSE few
Paired(few, pair) ==
  IF scope \in {"concurrent", "shared", "roundTrip"} THEN pair ELSE few

CallLimit ==
  CASE scope = "wide" -> 1
    [] scope = "narrow" -> MaxCalls
    [] OTHER -> MaxCalls + 1
ArgsLimit ==
  CASE scope = "wide" -> 1
    [] scope = "narrow" -> MaxArgs
    [] scope = "concurrent" -> MaxArgs + 1
    [] scope = "roundTrip" -> 2
    [] OTHER -> 1

ArgValues == {Absent, Str("test")}

OptionValues ==
  {NoOptions}
    \cup {Options(m, e) : m \in {Absent, Num(0), Num(102400)},
                          e \in {Absent, Num(0), Num(7)}}

FewOptionValues == {NoOptions, Options(Num(102400), Num(7))}

UserIds == {"testUserId"}
UserTokens == {"testUserToken", "badUserToken"}
Fingerprints == {"31-x9323s39amdsa"}
Loggers == {"logger", "console"}
FewLoggers == {"logger"}
Paths ==
  {"/test-data/test-file", "/test-data/image.png", "/test-data",
   "/test-data/none"}
FewPaths == {"/test-data/test-file", "/test-data/none"}
PairPaths == {"/test-data/test-file", "/test-data/image.png"}

\* file contents as strings: UTF-8 lengths 0, 1, 2, 3, 4 and 5 bytes
Contents ==
  {<<>>, <<116>>, <<233>>, <<116, 233>>, <<8364, 116>>, <<128512, 116>>}

\* files as strings and as buffers: 0, 1, 2, 3 and 4 bytes
FileValues ==
  {NoFile, Text(<<>>), Text(<<116, 233>>), Text(<<8364, 116>>), Buf(<<>>),
   Buf(<<255>>), Buf(<<255, 0>>), Buf(<<116, 195, 169>>)}

\* the files every policy is tried with
FewFileValues == {NoFile, Text(<<116, 233>>), Buf(<<255, 0>>)}

PolicyValues ==
  {NoPolicy}
    \cup {Policy(m, e, a) :
            m \in {Absent, Num(0), Num(102400)},
            e \in {Absent, Num(0), Num(7)},
            a \in {NoArray, Arr(<<>>), Arr(<<"image/*", "text/plain">>)}}

FewPolicyValues ==
  {NoPolicy,
   Policy(Num(0), Num(0), Arr(<<>>)),
   Policy(Num(102400), Num(7), Arr(<<"image/*", "text/plain">>))}

\* {userId, userToken, fingerprint} for fetch,
\* {userId, userToken, file, policy} for store and storeFromPath
ArgsValues ==
  [userId : UserIds, userToken : UserTokens,
   fingerprint : {Str(f) : f \in Fingerprints},
   file : {NoFile}, policy : {NoPolicy}]
    \cup [userId : UserIds, userToken : UserTokens, fingerprint : {Absent},
          file : FileValues, policy : {NoPolicy}]
    \cup [userId : UserIds, userToken : UserTokens, fingerprint : {Absent},
          file : FewFileValues, policy : PolicyValues]

FewArgsValues ==
  {args \in ArgsValues :
     \/ args.fingerprint # Absent
     \/ args.file = NoFile /\ args.policy = NoPolicy
     \/ args.file = Text(<<116, 233>>)
          /\ args.policy \in FewPolicyValues \ {NoPolicy}}

\* the argument objects of two users: a fetch and a store of the one, a
\* store of the other
PairArgs ==
  <<[userId |-> "testUserId", userToken |-> "testUserToken",
     fingerprint |-> Str("31-x9323s39amdsa"), file |-> NoFile,
     policy |-> NoPolicy],
    [userId |-> "testUserId", userToken |-> "testUserToken",
     fingerprint |-> Absent, file |-> Buf(<<255, 0>>), policy |-> NoPolicy],
    [userId |-> "otherUserId", userToken |-> "otherUserToken",
     fingerprint |-> Absent, file |-> Text(<<116, 233>>),
     policy |-> Policy(Num(102400), Num(7),
                       Arr(<<"image/*", "text/plain">>))]>>

PairArgsValues == {PairArgs[i] : i \in DOMAIN PairArgs}

\* the place of an argument object among those of the two users
Rank(args) ==
  CHOOSE i \in DOMAIN PairArgs :
    /\ PairArgs[i].userId = args.userId
    /\ PairArgs[i].fingerprint = args.fingerprint

\* strings to store and fetch: those of Contents, and strings with a
\* surrogate that has no partner
RoundContents ==
  Contents \cup {<<55296>>, <<116, 57343, 233>>}

\* the argument objects of a store of a string and of a fetch
RoundArgsValues ==
  {[userId |-> "testUserId", userToken |-> "testUserToken",
    fingerprint |-> Absent, file |-> Text(s), policy |-> NoPolicy] :
     s \in RoundContents}
    \cup {PairArgs[1]}

\* answers of the filestore to a store request
PostAnswers ==
  {NoJson,
   Json(Str(""), Absent, Absent, Absent, Absent, NoBase64),
   Json(Num(0), Str("/file/0"), Absent, Absent, Absent, NoBase64),
   Json(Str("fp1"), Absent, Absent, Absent, Absent, NoBase64),
   Json(Str("fp2"), Str("/file/fp2"), Num(2), Str("image/png"),
        Num(1483228800), NoBase64)}

FewPostAnswers ==
  {NoJson,
   Json(Str("fp2"), Str("/file/fp2"), Num(2), Str("image/png"),
        Num(1483228800), NoBase64)}

PairPostAnswers ==
  {Json(Str("fp2"), Str("/file/fp2"), Num(2), Str("image/png"),
        Num(1483228800), NoBase64)}

\* answers of the filestore to a fetch request
GetAnswers ==
  {NoJson}
    \cup {Json(Absent, Absent, Absent, Absent, Absent,
               Base64(Base64Encode(Utf8Encode(c)))) : c \in Contents}
    \cup {Json(Absent, Absent, Absent, Absent, Absent,
               Base64(Base64Encode(<<255, 0>>)))}

FewGetAnswers ==
  {NoJson,
   Json(Absent, Absent, Absent, Absent, Absent,
        Base64(Base64Encode(Utf8Encode(<<8364, 116>>))))}

PairGetAnswers ==
  {Json(Absent, Absent, Absent, Absent, Absent,
        Base64(Base64Encode(Utf8Encode(<<8364, 116>>))))}

\* failures the transport signals: status passthrough and mapped network
\* errors
TransportErrors ==
  {ErrorOf(FBUserFileStoreClientError, Num(401), Num(401)),
   ErrorOf(FBUserFileStoreClientError, Num(403), Num(403)),
   ErrorOf(FBUserFileStoreClientError, Num(404), Num(404)),
   ErrorOf(FBUserFileStoreClientError, Num(503), Str("ECONNREFUSED")),
   ErrorOf(FBUserFileStoreClientError, Num(502), Str("ENOTFOUND")),
   ErrorOf(FBUserFileStoreClientError, Num(500), Str("EMADEUP")),
   ErrorOf(FBUserFileStoreClientError, Num(500), Str("EUNSPECIFIED")),
   ErrorOf(FBUserFileStoreClientError, Num(500), Str("ENOERROR"))}

FewTransportErrors ==
  {ErrorOf(FBUserFileStoreClientError, Num(404), Num(404)),
   ErrorOf(FBUserFileStoreClientError, Num(503), Str("ECONNREFUSED"))}

PairTransportErrors ==
  {ErrorOf(FBUserFileStoreClientError, Num(503), Str("ECONNREFUSED"))}

----------------------------------------------------------------------------
(* State *)

\* scope:    the scope the run is explored in
\* given:    the arguments of the last `new`
\* client:   the instance, once constructed
\* thrown:   what the last `new` threw
\* heap:     the argument objects the caller holds
\* calls:    the invocations made on the instance; `args` is the argument
\*           object of the invocation, `passed` what that object held when
\*           the method was called
\* requests: the requests handed to sendGet / sendPost

NewCall(op, a, path, logger) ==
  [op |-> op, args |-> a, passed |-> heap[a], path |-> path,
   logger |-> logger, pc |-> "start", read |-> NoRead, request |-> 0,
   promise |-> Unsettled, inner |-> Unsettled, returned |-> NoUrl]

NewRequest(c, request) ==
  [call |-> c, request |-> request, state |-> "pending", json |-> NoJson,
   error |-> NoError]

NotGiven ==
  [serviceSecret |-> Absent, serviceToken |-> Absent, serviceSlug |-> Absent,
   userFileStoreUrl |-> Absent, options |-> NoOptions]

Init ==
  /\ scope \in Scopes
  /\ given = NotGiven
  /\ client = NoClient
  /\ thrown = NoError
  /\ heap = <<>>
  /\ calls = <<>>
  /\ requests = <<>>

\* new FBUserFileStoreClient(...): once per process; a throw ends it
Construct ==
  /\ ~client.constructed
  /\ thrown = NoError
  /\ \E serviceSecret \in ArgValues, serviceToken \in ArgValues,
        serviceSlug \in ArgValues, userFileStoreUrl \in ArgValues,
        options \in Drawn(OptionValues,
                              Paired(FewOptionValues, {NoOptions})) :
       LET made == constructor(serviceSecret, serviceToken, serviceSlug,
                               userFileStoreUrl, options)
       IN /\ given' = [serviceSecret |-> serviceSecret,
                       serviceToken |-> serviceToken,
                       serviceSlug |-> serviceSlug,
                       userFileStoreUrl |-> userFileStoreUrl,
                       options |-> options]
          /\ client' = made.instance
          /\ thrown' = made.error
  /\ UNCHANGED <<scope, heap, calls, requests>>

\* the caller builds an argument object; the objects of the two users are
\* distinct and built in one order
NewArgs ==
  /\ client.constructed
  /\ Len(heap) < ArgsLimit
  /\ \E args \in Drawn(ArgsValues,
                        Paired(FewArgsValues,
                               IF scope = "roundTrip" THEN RoundArgsValues
                               ELSE PairArgsValues)) :
       /\ scope = "concurrent" =>
            \A a \in 1..Len(heap) : Rank(heap[a]) < Rank(args)
       /\ scope = "shared" => args.fingerprint = Absent
       /\ scope = "roundTrip" =>
            (args.fingerprint = Absent <=> Len(heap) = 0)
       /\ heap' = Append(heap, args)
  /\ UNCHANGED <<scope, given, client, thrown, calls, requests>>

\* may the next invocation be given argument object a: in the concurrent
\* and roundTrip scopes, when no invocation was given it before
Free(a) ==
  scope \in {"concurrent", "roundTrip"} =>
    \A d \in 1..Len(calls) :
      calls[d].op = "getFetchUrl" \/ calls[d].args # a

\* client.fetch(args, logger)
Fetch ==
  /\ client.constructed
  /\ Len(calls) < CallLimit
  /\ \E a \in 1..Len(heap), logger \in Drawn(Loggers, FewLoggers) :
       LET c == Len(calls) + 1
       IN /\ heap[a].fingerprint # Absent
          /\ Free(a)
          /\ IF fetchThrows(heap[a])
               THEN /\ calls' =
                         Append(calls,
                                [NewCall("fetch", a, "", logger) EXCEPT
                                   !.pc = "done",
                                   !.promise = Thrown(EncryptError)])
                    /\ UNCHANGED requests
             ELSE /\ requests' =
                       Append(requests,
                              NewRequest(c, fetchRequest(client, heap[a],
                                                         logger)))
                  /\ calls' =
                       Append(calls,
                              [NewCall("fetch", a, "", logger) EXCEPT
                                 !.pc = "sendGet",
                                 !.request = Len(requests) + 1])
  /\ UNCHANGED <<scope, given, client, thrown, heap>>

\* client.getFetchUrl(args.userId, args.fingerprint)
GetFetchUrl ==
  /\ client.constructed
  /\ Len(calls) < CallLimit
  /\ \E a \in 1..Len(heap) :
       /\ heap[a].fingerprint # Absent
       /\ calls' =
            Append(calls,
                   [NewCall("getFetchUrl", a, "", "") EXCEPT
                      !.pc = "done",
                      !.returned = getFetchUrl(client, heap[a].userId,
                                               heap[a].fingerprint.s)])
  /\ UNCHANGED <<scope, given, client, thrown, heap, requests>>

\* a store that keeps the limit of the policy on the instance
StoreKeepingLimit ==
  /\ client.constructed
  /\ Len(calls) < CallLimit
  /\ \E a \in 1..Len(heap), logger \in Drawn(Loggers, FewLoggers) :
       LET c == Len(calls) + 1
       IN /\ heap[a].fingerprint = Absent
          /\ Free(a)
          /\ ~storeThrows(heap[a])
          /\ client' = [client EXCEPT
                          !.maxSize = storePolicy(client,
                                                  heap[a].policy).max_size]
          /\ requests' =
               Append(requests,
                      NewRequest(c, storeRequest(client, heap[a], logger)))
          /\ calls' =
               Append(calls,
                      [NewCall("store", a, "", logger) EXCEPT
                         !.pc = "sendPost", !.request = Len(requests) + 1])
  /\ UNCHANGED <<scope, given, thrown, heap>>

\* a store that fills in and trims the policy it was given, not a copy
StoreInPlace ==
  /\ client.constructed
  /\ Len(calls) < CallLimit
  /\ \E a \in 1..Len(heap), logger \in Drawn(Loggers, FewLoggers) :
       LET c == Len(calls) + 1
       IN /\ heap[a].fingerprint = Absent
          /\ Free(a)
          /\ heap' = IF heap[a].file = NoFile \/ heap[a].policy = NoPolicy
                       THEN heap
                     ELSE [heap EXCEPT
                             ![a].policy = storePolicy(client,
                                                       heap[a].policy)]
          /\ IF storeThrows(heap[a])
               THEN /\ calls' =
                         Append(calls,
                                [NewCall("store", a, "", logger) EXCEPT
                                   !.pc = "done",
                                   !.promise = Thrown(storeError(heap[a]))])
                    /\ UNCHANGED requests
             ELSE /\ requests' =
                       Append(requests,
                              NewRequest(c, storeRequest(client, heap[a],
                                                         logger)))
                  /\ calls' =
                       Append(calls,
                              [NewCall("store", a, "", logger) EXCEPT
                                 !.pc = "sendPost",
                                 !.request = Len(requests) + 1])
  /\ UNCHANGED <<scope, given, client, thrown>>

\* client.store(args, logger)
Store ==
  /\ client.constructed
  /\ Len(calls) < CallLimit
  /\ \E a \in 1..Len(heap), logger \in Drawn(Loggers, FewLoggers) :
       LET c == Len(calls) + 1
       IN /\ heap[a].fingerprint = Absent
          /\ Free(a)
          /\ IF storeThrows(heap[a])
               THEN /\ calls' =
                         Append(calls,
                                [NewCall("store", a, "", logger) EXCEPT
                                   !.pc = "done",
                                   !.promise = Thrown(storeError(heap[a]))])
                    /\ UNCHANGED requests
             ELSE /\ requests' =
                       Append(requests,
                              NewRequest(c, storeRequest(client, heap[a],
                                                         logger)))
                  /\ calls' =
                       Append(calls,
                              [NewCall("store", a, "", logger) EXCEPT
                                 !.pc = "sendPost",
                                 !.request = Len(requests) + 1])
  /\ UNCHANGED <<scope, given, client, thrown, heap>>

\* client.storeFromPath(filePath, args, logger): readFile is started
StoreFromPath ==
  /\ client.constructed
  /\ Len(calls) < CallLimit
  /\ \E path \in Drawn(Paths, Paired(FewPaths, PairPaths)), a \in 1..Len(heap),
        logger \in Drawn(Loggers, FewLoggers) :
       /\ heap[a].fingerprint = Absent
       /\ Free(a)
       /\ calls' = Append(calls,
                          [NewCall("storeFromPath", a, path, logger) EXCEPT
                             !.pc = "readFile",
                             !.read = [NoRead EXCEPT
                                         !.state = "pending"]])
  /\ UNCHANGED <<scope, given, client, thrown, heap, requests>>

\* the filesystem settles the promise of readFile
ReadFile(c) ==
  /\ calls[c].pc = "readFile"
  /\ calls[c].read.state = "pending"
  /\ calls' = [calls EXCEPT ![c].read = readFile(calls[c].path)]
  /\ UNCHANGED <<scope, given, client, thrown, heap, requests>>

\* a reaction that assigns the bytes read and leaves the call of store to a
\* later turn: store then finds in args.file what another storeFromPath on
\* the same object, whose read has arrived too, assigned meanwhile
StoreFromPathThenRacing(c) ==
  /\ calls[c].pc = "readFile"
  /\ calls[c].read.state # "pending"
  /\ IF calls[c].read.state = "rejected"
       THEN /\ calls' = [calls EXCEPT ![c].pc = "done",
                                      ![c].promise =
                                        Rejected(calls[c].read.error)]
            /\ UNCHANGED <<heap, requests>>
     ELSE LET a == calls[c].args
              others == {d \in 1..Len(calls) :
                           /\ d # c
                           /\ calls[d].op = "storeFromPath"
                           /\ calls[d].args = a
                           /\ calls[d].pc = "readFile"
                           /\ calls[d].read.state = "fulfilled"}
              found == IF others = {} THEN calls[c].read.data
                       ELSE calls[CHOOSE d \in others : TRUE].read.data
              args == [heap[a] EXCEPT !.file = Buf(found)]
          IN /\ heap' = [heap EXCEPT ![a] = args]
             /\ IF storeThrows(args)
                  THEN /\ calls' = [calls EXCEPT
                                      ![c].pc = "done",
                                      ![c].promise =
                                        Rejected(storeError(args))]
                       /\ UNCHANGED requests
                ELSE /\ requests' =
                          Append(requests,
                                 NewRequest(c, storeRequest(client, args,
                                                            calls[c].logger)))
                     /\ calls' = [calls EXCEPT
                                    ![c].pc = "sendPost",
                                    ![c].request = Len(requests) + 1,
                                    ![c].promise = FulfilledUndefined]
  /\ UNCHANGED <<scope, given, client, thrown>>

\* a storeFromPath that keeps its args on the instance, where the latest
\* invocation overwrites them, and stores those
StoreFromPathThenSharedArgs(c) ==
  /\ calls[c].pc = "readFile"
  /\ calls[c].read.state # "pending"
  /\ IF calls[c].read.state = "rejected"
       THEN /\ calls' = [calls EXCEPT ![c].pc = "done",
                                      ![c].promise =
                                        Rejected(calls[c].read.error)]
            /\ UNCHANGED <<heap, requests>>
     ELSE LET last == CHOOSE d \in 1..Len(calls) :
                        /\ calls[d].op = "storeFromPath"
                        /\ \A e \in 1..Len(calls) :
                             calls[e].op = "storeFromPath" => e <= d
              a == calls[last].args
              args == [heap[a] EXCEPT !.file = Buf(calls[c].read.data)]
          IN /\ heap' = [heap EXCEPT ![a] = args]
             /\ IF storeThrows(args)
                  THEN /\ calls' = [calls EXCEPT
                                      ![c].pc = "done",
                                      ![c].promise =
                                        Rejected(storeError(args))]
                       /\ UNCHANGED requests
                ELSE /\ requests' =
                          Append(requests,
                                 NewRequest(c, storeRequest(client, args,
                                                            calls[c].logger)))
                     /\ calls' = [calls EXCEPT
                                    ![c].pc = "sendPost",
                                    ![c].request = Len(requests) + 1,
                                    ![c].promise = FulfilledUndefined]
  /\ UNCHANGED <<scope, given, client, thrown>>

\* a storeFromPath that catches the read failure and raises a request
\* error of the client for it
StoreFromPathThenRemapping(c) ==
  /\ calls[c].pc = "readFile"
  /\ calls[c].read.state # "pending"
  /\ IF calls[c].read.state = "rejected"
       THEN /\ calls' = [calls EXCEPT
                           ![c].pc = "done",
                           ![c].promise =
                             Rejected(throwRequestError(
                                        client, Num(500),
                                        calls[c].read.error.code))]
            /\ UNCHANGED <<heap, requests>>
     ELSE LET a == calls[c].args
              args == [heap[a] EXCEPT !.file = Buf(calls[c].read.data)]
          IN /\ heap' = [heap EXCEPT ![a] = args]
             /\ IF storeThrows(args)
                  THEN /\ calls' = [calls EXCEPT
                                      ![c].pc = "done",
                                      ![c].promise =
                                        Rejected(storeError(args))]
                       /\ UNCHANGED requests
                ELSE /\ requests' =
                          Append(requests,
                                 NewRequest(c, storeRequest(client, args,
                                                            calls[c].logger)))
                     /\ calls' = [calls EXCEPT
                                    ![c].pc = "sendPost",
                                    ![c].request = Len(requests) + 1,
                                    ![c].promise = FulfilledUndefined]
  /\ UNCHANGED <<scope, given, client, thrown>>

\* a reaction that calls store without assigning the bytes read
StoreFromPathThenKeepingFile(c) ==
  /\ calls[c].pc = "readFile"
  /\ calls[c].read.state # "pending"
  /\ IF calls[c].read.state = "rejected"
       THEN /\ calls' = [calls EXCEPT ![c].pc = "done",
                                      ![c].promise =
                                        Rejected(calls[c].read.error)]
            /\ UNCHANGED requests
     ELSE LET args == heap[calls[c].args]
          IN IF storeThrows(args)
               THEN /\ calls' = [calls EXCEPT
                                   ![c].pc = "done",
                                   ![c].promise = Rejected(storeError(args))]
                    /\ UNCHANGED requests
             ELSE /\ requests' =
                       Append(requests,
                              NewRequest(c, storeRequest(client, args,
                                                         calls[c].logger)))
                  /\ calls' = [calls EXCEPT
                                 ![c].pc = "sendPost",
                                 ![c].request = Len(requests) + 1,
                                 ![c].promise = FulfilledUndefined]
  /\ UNCHANGED <<scope, given, client, thrown, heap>>

\* .then(file => { args.file = file; this.store(args, logger) })
StoreFromPathThen(c) ==
  /\ calls[c].pc = "readFile"
  /\ calls[c].read.state # "pending"
  /\ IF calls[c].read.state = "rejected"
       THEN /\ calls' = [calls EXCEPT ![c].pc = "done",
                                      ![c].promise =
                                        Rejected(calls[c].read.error)]
            /\ UNCHANGED <<heap, requests>>
     ELSE LET a == calls[c].args
              args == [heap[a] EXCEPT !.file = Buf(calls[c].read.data)]
          IN /\ heap' = [heap EXCEPT ![a] = args]
             /\ IF storeThrows(args)
                  THEN /\ calls' = [calls EXCEPT
                                      ![c].pc = "done",
                                      ![c].promise = Rejected(storeError(args))]
                       /\ UNCHANGED requests
                ELSE /\ requests' =
                          Append(requests,
                                 NewRequest(c, storeRequest(client, args,
                                                            calls[c].logger)))
                     /\ calls' = [calls EXCEPT
                                    ![c].pc = "sendPost",
                                    ![c].request = Len(requests) + 1,
                                    ![c].promise = FulfilledUndefined]
  /\ UNCHANGED <<scope, given, client, thrown>>

\* the files the filestore holds: in the roundTrip scope, what the store
\* requests before request r sent
StoredAnswers(r) ==
  IF scope = "roundTrip"
    THEN {Json(Absent, Absent, Absent, Absent, Absent,
               requests[p].request.payload.file) :
            p \in {q \in 1..(r - 1) : requests[q].request.method = "POST"}}
  ELSE {}

\* the transport resolves the promise of sendGet / sendPost
SendResolve(r) ==
  /\ requests[r].state = "pending"
  /\ \E json \in IF requests[r].request.method = "GET"
                   THEN Drawn(GetAnswers,
                              Paired(FewGetAnswers, PairGetAnswers))
                          \cup StoredAnswers(r)
                 ELSE Drawn(PostAnswers,
                            Paired(FewPostAnswers, PairPostAnswers)) :
       requests' = [requests EXCEPT ![r].state = "fulfilled",
                                    ![r].json = json]
  /\ UNCHANGED <<scope, given, client, thrown, heap, calls>>

\* the transport rejects the promise of sendGet / sendPost
SendReject(r) ==
  /\ requests[r].state = "pending"
  /\ \E error \in Drawn(TransportErrors,
                       Paired(FewTransportErrors, PairTransportErrors)) :
       requests' = [requests EXCEPT ![r].state = "rejected",
                                    ![r].error = error]
  /\ UNCHANGED <<scope, given, client, thrown, heap, calls>>

\* a reaction that catches the rejection and resolves with undefined
ThenSwallowing(request, onFulfilled) ==
  IF request.state = "rejected" THEN FulfilledUndefined
  ELSE onFulfilled

\* a promise derived with .then(onFulfilled) alone: a rejection passes
\* through, a fulfilment goes to the handler
Then(request, onFulfilled) ==
  IF request.state = "rejected" THEN Rejected(request.error)
  ELSE onFulfilled

\* the reaction of fetch to the settled sendGet
FetchThen(c) ==
  /\ calls[c].pc = "sendGet"
  /\ requests[calls[c].request].state # "pending"
  /\ LET request == requests[calls[c].request]
     IN calls' = [calls EXCEPT
                    ![c].pc = "done",
                    ![c].promise = Then(request, fetchThen(request.json))]
  /\ UNCHANGED <<scope, given, client, thrown, heap, requests>>

\* a store that posts once more when the result has no fingerprint
StoreThenRetrying(c) ==
  /\ calls[c].pc = "sendPost"
  /\ requests[calls[c].request].state # "pending"
  /\ LET request == requests[calls[c].request]
         outcome == Then(request, storeThen(client, request.json))
         again == /\ request.state = "fulfilled"
                  /\ ~Truthy(request.json.fingerprint)
                  /\ Cardinality({r \in 1..Len(requests) :
                                     requests[r].call = c}) = 1
     IN IF again
          THEN /\ requests' = Append(requests,
                                     NewRequest(c, request.request))
               /\ calls' = [calls EXCEPT ![c].request = Len(requests) + 1]
        ELSE /\ calls' = [calls EXCEPT
                            ![c].pc = "done",
                            ![c].promise = IF calls[c].op = "store"
                                             THEN outcome
                                           ELSE @,
                            ![c].inner = IF calls[c].op = "store" THEN @
                                         ELSE outcome]
             /\ UNCHANGED requests
  /\ UNCHANGED <<scope, given, client, thrown, heap>>

\* the reaction of store to the settled sendPost; the promise it settles is
\* the one store returned: the caller's for store, nobody's for storeFromPath
StoreThen(c) ==
  /\ calls[c].pc = "sendPost"
  /\ requests[calls[c].request].state # "pending"
  /\ LET request == requests[calls[c].request]
         outcome == Then(request, storeThen(client, request.json))
     IN calls' = [calls EXCEPT
                    ![c].pc = "done",
                    ![c].promise = IF calls[c].op = "store" THEN outcome
                                   ELSE @,
                    ![c].inner = IF calls[c].op = "store" THEN @
                                 ELSE outcome]
  /\ UNCHANGED <<scope, given, client, thrown, heap, requests>>

Next ==
  \/ Construct
  \/ NewArgs
  \/ Fetch
  \/ GetFetchUrl
  \/ Store
  \/ StoreFromPath
  \/ \E c \in 1..Len(calls) : ReadFile(c)
  \/ \E c \in 1..Len(calls) : StoreFromPathThen(c)
  \/ \E r \in 1..Len(requests) : SendResolve(r)
  \/ \E r \in 1..Len(requests) : SendReject(r)
  \/ \E c \in 1..Len(calls) : FetchThen(c)
  \/ \E c \in 1..Len(calls) : StoreThen(c)

Spec == Init /\ [][Next]_vars

----------------------------------------------------------------------------
(* Properties *)

Calls == 1..Len(calls)

\* has call c invoked store (directly, or from storeFromPath's reaction)
StoreInvoked(c) ==
  \/ calls[c].op = "store"
  \/ calls[c].op = "storeFromPath" /\ calls[c].request # 0

\* the promise returned by the store invocation of call c
StorePromise(c) ==
  IF calls[c].op = "store" THEN calls[c].promise ELSE calls[c].inner

\* has the reaction to the settled transport promise of call c run
Reacted(c) == calls[c].request # 0 /\ calls[c].pc = "done"

\* sendPost of call c succeeded with a result without a truthy fingerprint
NoFingerprintAnswer(c) ==
  /\ StoreInvoked(c)
  /\ calls[c].request # 0
  /\ requests[calls[c].request].state = "fulfilled"
  /\ ~Truthy(requests[calls[c].request].json.fingerprint)

\* C1: a store whose sendPost succeeds with a result that has no truthy
\* fingerprint never resolves with a value, and once it has reacted it is
\* rejected with code 500 and message 'ENOFINGERPRINT'
C1_NoFingerprintRejects ==
  \A c \in Calls :
    NoFingerprintAnswer(c) =>
      /\ StorePromise(c).state # "fulfilled"
      /\ Reacted(c) =>
           /\ StorePromise(c).state = "rejected"
           /\ StorePromise(c).error.code = Num(500)
           /\ StorePromise(c).error.message = Str("ENOFINGERPRINT")
           /\ StorePromise(c).error.name = FBUserFileStoreClientError

\* a store answered with an empty-string fingerprint has been rejected
C1_Witness ==
  \E c \in Calls :
    /\ calls[c].op = "store"
    /\ NoFingerprintAnswer(c)
    /\ requests[calls[c].request].json.fingerprint = Str("")
    /\ Reacted(c)
    /\ calls[c].promise.state = "rejected"

C3_StoreFromPathSettlesAsStore ==
  \A c \in Calls :
    (calls[c].op = "storeFromPath" /\ StoreInvoked(c)) =>
      /\ Settled(calls[c].promise) => calls[c].promise = calls[c].inner
      /\ Settled(calls[c].inner) => calls[c].promise = calls[c].inner

\* C4: when the promise returned by fetch, store or storeFromPath settles,
\* every transport request started for that call has completed
C4_NoBackgroundWork ==
  \A c \in Calls :
    Settled(calls[c].promise) =>
      \A r \in 1..Len(requests) :
        requests[r].call = c => requests[r].state # "pending"

\* the promise returned by the fetch or store invocation of call c
TransportPromise(c) ==
  IF calls[c].op = "fetch" THEN calls[c].promise ELSE StorePromise(c)

\* C5: a failure signalled by the transport during fetch or store reaches
\* the caller as a rejection carrying that same error; the call never
\* resolves with a value after it
C5_TransportFailurePropagates ==
  \A c \in Calls :
    (calls[c].request # 0
       /\ requests[calls[c].request].state = "rejected") =>
      /\ TransportPromise(c).state # "fulfilled"
      /\ Reacted(c) =>
           TransportPromise(c) = Rejected(requests[calls[c].request].error)

\* a fetch or store whose transport call failed with 404 or with the mapped
\* network error 503 has been rejected with that very error
C5_Witness ==
  \E c \in Calls :
    /\ calls[c].op \in {"fetch", "store"}
    /\ Reacted(c)
    /\ requests[calls[c].request].state = "rejected"
    /\ requests[calls[c].request].error.code \in {Num(404), Num(503)}
    /\ calls[c].promise.state = "rejected"
    /\ calls[c].promise.error = requests[calls[c].request].error

\* a `new` has been evaluated
Constructing == client.constructed \/ thrown # NoError

\* code and message for the first missing argument, in the order secret,
\* token, slug, url
FirstMissing ==
  CASE given.serviceSecret = Absent ->
         <<"ENOSERVICESECRET", "No service secret passed to client">>
    [] given.serviceSecret # Absent /\ given.serviceToken = Absent ->
         <<"ENOSERVICETOKEN", "No service token passed to client">>
    [] given.serviceSecret # Absent /\ given.serviceToken # Absent
       /\ given.serviceSlug = Absent ->
         <<"ENOSERVICESLUG", "No service slug passed to client">>
    [] OTHER ->
         <<"ENOMICROSERVICEURL", "No microservice url passed to client">>

AnyMissing ==
  Absent \in {given.serviceSecret, given.serviceToken, given.serviceSlug,
              given.userFileStoreUrl}

\* C6: constructing with any of secret, token, slug, url missing throws an
\* FBUserFileStoreClientError whose code and message are those of the first
\* missing argument, and no instance is produced
C6_FirstMissingArgumentReported ==
  (Constructing /\ AnyMissing) =>
    /\ thrown = ErrorOf("FBUserFileStoreClientError", Str(FirstMissing[1]),
                        Str(FirstMissing[2]))
    /\ ~client.constructed
    /\ client = NoClient

\* `new` without a token and without a url has thrown ENOSERVICETOKEN
C6_Witness ==
  /\ given.serviceSecret # Absent
  /\ given.serviceToken = Absent
  /\ given.userFileStoreUrl = Absent
  /\ thrown.code = Str("ENOSERVICETOKEN")
  /\ ~client.constructed

\* C7 as stated: maxSize is the default when options.maxSize is unspecified
\* and the supplied value for every non-negative integer supplied, and
\* likewise expires
C7_AnySuppliedValueKept ==
  client.constructed =>
    /\ client.maxSize = IF given.options.maxSize = Absent
                          THEN Num(10 * 1024 * 1024)
                        ELSE given.options.maxSize
    /\ client.expires = IF given.options.expires = Absent
                          THEN Num(defaultExpires)
                        ELSE given.options.expires

\* C7 amended: maxSize is 10*1024*1024 when options.maxSize is unspecified
\* or 0 and the supplied value for every positive integer supplied;
\* expires is the default when unspecified or 0 and the supplied value
\* otherwise
C7_TruthySuppliedValueKept ==
  client.constructed =>
    /\ client.maxSize = IF given.options.maxSize \in {Absent, Num(0)}
                          THEN Num(10 * 1024 * 1024)
                        ELSE given.options.maxSize
    /\ client.expires = IF given.options.expires \in {Absent, Num(0)}
                          THEN Num(defaultExpires)
                        ELSE given.options.expires

\* a client constructed with maxSize 102400 and no expires
C7_Witness ==
  /\ client.constructed
  /\ given.options.maxSize = Num(102400)
  /\ given.options.expires = Absent
  /\ client.maxSize = Num(102400)
  /\ client.expires = Num(28)

StoreRequests ==
  {r \in 1..Len(requests) : requests[r].request.method = "POST"}

\* the policy the caller of request r passed in its args
CallerPolicy(r) == heap[calls[requests[r].call].args].policy

\* the policy request r carries to the transport
SentPolicy(r) == requests[r].request.payload.policy

\* C8 as stated: the outgoing max_size / expires is the caller's whenever
\* the caller's policy has the field, the instance's when it is omitted
C8_AnySuppliedLimitKept ==
  \A r \in StoreRequests :
    /\ SentPolicy(r).max_size = IF CallerPolicy(r).max_size = Absent
                                  THEN client.maxSize
                                ELSE CallerPolicy(r).max_size
    /\ SentPolicy(r).expires = IF CallerPolicy(r).expires = Absent
                                 THEN client.expires
                               ELSE CallerPolicy(r).expires

\* C8 amended: the outgoing max_size / expires is the caller's when the
\* caller's policy supplies a non-zero value, and the instance's maxSize /
\* expires when the policy or the field is omitted or the value is 0
C8_TruthySuppliedLimitKept ==
  \A r \in StoreRequests :
    /\ SentPolicy(r).t = "object"
    /\ SentPolicy(r).max_size = IF CallerPolicy(r).max_size
                                     \in {Absent, Num(0)}
                                  THEN client.maxSize
                                ELSE CallerPolicy(r).max_size
    /\ SentPolicy(r).expires = IF CallerPolicy(r).expires
                                    \in {Absent, Num(0)}
                                 THEN client.expires
                               ELSE CallerPolicy(r).expires

\* a store request whose policy keeps the caller's max_size and takes the
\* instance's expires
C8_Witness ==
  \E r \in StoreRequests :
    /\ CallerPolicy(r).max_size = Num(102400)
    /\ CallerPolicy(r).expires = Absent
    /\ SentPolicy(r).max_size = Num(102400)
    /\ SentPolicy(r).expires = client.expires

\* C9: the outgoing policy has no allowed_types when the caller's is empty
\* or missing, and carries the caller's sequence unchanged when it is not
\* empty
C9_AllowedTypes ==
  \A r \in StoreRequests :
    SentPolicy(r).allowed_types =
      IF CallerPolicy(r).allowed_types.t = "absent"
         \/ CallerPolicy(r).allowed_types.a = <<>>
        THEN NoArray
      ELSE CallerPolicy(r).allowed_types

\* a store request sent for a policy with an empty allowed_types
C9_Witness ==
  \E r \in StoreRequests :
    /\ CallerPolicy(r).allowed_types = Arr(<<>>)
    /\ SentPolicy(r).allowed_types = NoArray

\* the strings whose base64-encoded UTF-8 bytes the answer to call c carries
Fetched(c) ==
  {s \in Contents :
     requests[calls[c].request].json.file
       = Base64(Base64Encode(Utf8Encode(s)))}

StoredFile(r) ==
  IF calls[requests[r].call].op = "store"
    THEN calls[requests[r].call].passed.file
  ELSE Buf(calls[requests[r].call].read.data)

\* the byte content of a file: the bytes of a buffer, the UTF-8 encoding of
\* a string
FileBytes(file) ==
  IF file.k = "buffer" THEN file.d ELSE Utf8Encode(file.d)

\* C11: base64-decoding the file of the payload store hands to the
\* transport yields exactly the byte content passed as file, whether it
\* was passed as raw bytes or as a string
C11_StoredFileDecodes ==
  \A r \in StoreRequests :
    /\ requests[r].request.payload.file.t = "string"
    /\ Base64Decode(requests[r].request.payload.file.d)
         = FileBytes(StoredFile(r))

\* a store of the two-character string with a three-byte and a one-byte
\* character sent a payload that decodes to its four bytes
C11_Witness ==
  \E r \in StoreRequests :
    /\ calls[requests[r].call].op = "store"
    /\ StoredFile(r) = Text(<<8364, 116>>)
    /\ Base64Decode(requests[r].request.payload.file.d)
         = <<226, 130, 172, 116>>

FetchRequests ==
  {r \in 1..Len(requests) : requests[r].request.method = "GET"}

\* C12: what fetch hands to sendGet is the fetch url template, the context
\* {serviceSlug of the instance, userId, fingerprint}, the payload holding
\* only encryptUserIdAndToken(userId, userToken), and the caller's logger
C12_FetchHandsToSendGet ==
  \A r \in FetchRequests :
    LET c == requests[r].call
        args == calls[c].passed
    IN /\ calls[c].op = "fetch"
       /\ calls[c].request = r
       /\ requests[r].request.url
            = "/service/:serviceSlug/user/:userId/:fingerprint"
       /\ requests[r].request.context
            = [serviceSlug |-> client.serviceSlug,
               userId |-> Str(args.userId),
               fingerprint |-> args.fingerprint]
       /\ requests[r].request.payload
            = [encrypted_user_id_and_token |->
                 encryptUserIdAndToken(args.userId, args.userToken),
               file |-> NoBase64,
               policy |-> NoPolicy]
       /\ requests[r].request.logger = calls[c].logger

\* a fetch called with the second logger has handed sendGet the context of
\* the test user and that logger
C12_Witness ==
  \E r \in FetchRequests :
    /\ calls[requests[r].call].logger = "console"
    /\ requests[r].request.logger = "console"
    /\ requests[r].request.context
         = [serviceSlug |-> Str("test"), userId |-> Str("testUserId"),
            fingerprint |-> Str("31-x9323s39amdsa")]

\* a policy as the filestore is to receive it: the instance's limit where
\* the caller's is missing or 0, no allowed_types for a missing or empty one
Normalized(policy) ==
  Policy(IF policy.max_size \in {Absent, Num(0)} THEN client.maxSize
         ELSE policy.max_size,
         IF policy.expires \in {Absent, Num(0)} THEN client.expires
         ELSE policy.expires,
         IF policy.allowed_types \in {NoArray, Arr(<<>>)} THEN NoArray
         ELSE policy.allowed_types)

\* C13: what store hands to sendPost is the store url template, the
\* context {serviceSlug of the instance, userId}, the payload
\* {encryptUserIdAndToken(userId, userToken), the file in base64, the
\* normalized policy}, and the caller's logger
C13_StoreHandsToSendPost ==
  \A r \in StoreRequests :
    LET c == requests[r].call
        args == calls[c].passed
    IN /\ calls[c].op \in {"store", "storeFromPath"}
       /\ calls[c].request = r
       /\ requests[r].request.url = "/service/:serviceSlug/user/:userId"
       /\ requests[r].request.context
            = [serviceSlug |-> client.serviceSlug,
               userId |-> Str(args.userId),
               fingerprint |-> Absent]
       /\ requests[r].request.payload
            = [encrypted_user_id_and_token |->
                 encryptUserIdAndToken(args.userId, args.userToken),
               file |-> Base64(Base64Encode(FileBytes(StoredFile(r)))),
               policy |-> Normalized(args.policy)]
       /\ requests[r].request.logger = calls[c].logger

\* a store of the two-character string under a full policy has handed
\* sendPost the base64 string "dMOp", that policy and the second logger
C13_Witness ==
  \E r \in StoreRequests :
    /\ calls[requests[r].call].op = "store"
    /\ calls[requests[r].call].passed.file = Text(<<116, 233>>)
    /\ calls[requests[r].call].logger = "console"
    /\ requests[r].request.logger = "console"
    /\ requests[r].request.payload.file = Base64(<<29, 12, 14, 41>>)
    /\ requests[r].request.payload.policy
         = Policy(Num(102400), Num(7), Arr(<<"image/*", "text/plain">>))

\* the invocations of getFetchUrl
UrlCalls == {c \in Calls : calls[c].op = "getFetchUrl"}

\* C14: getFetchUrl(userId, fingerprint) returns what createEndpointUrl
\* makes of the fetch url template and the context {serviceSlug of the
\* instance, userId, fingerprint}, and hands nothing to the transport
C14_GetFetchUrl ==
  \A c \in UrlCalls :
    /\ calls[c].returned
         = createEndpointUrl(client,
                             "/service/:serviceSlug/user/:userId/:fingerprint",
                             [serviceSlug |-> client.serviceSlug,
                              userId |-> Str(calls[c].passed.userId),
                              fingerprint |-> calls[c].passed.fingerprint])
    /\ calls[c].request = 0
    /\ \A r \in 1..Len(requests) : requests[r].call # c

\* getFetchUrl has returned the url of the test user's file, and nothing was
\* handed to the transport
C14_Witness ==
  \E c \in UrlCalls :
    /\ calls[c].returned
         = [base |-> Str("test"),
            path |-> <<Str("service"), Str("test"), Str("user"),
                       Str("testUserId"), Str("31-x9323s39amdsa")>>]
    /\ requests = <<>>

\* the requests call c has handed to the transport
RequestsOf(c) == {r \in 1..Len(requests) : requests[r].call = c}

\* encryptUserIdAndToken takes the userId and userToken of call c
Encrypts(c) ==
  ~encryptThrows(calls[c].passed.userId, calls[c].passed.userToken)

\* C15: no call ever hands the transport a second request; a fetch has
\* handed sendGet exactly one and a store given a file has handed sendPost
\* exactly one (their identity being encrypted), whatever became of it; once
\* the call has reacted to the answer nothing of it is in flight
C15_NoRetry ==
  \A c \in Calls :
    /\ Cardinality(RequestsOf(c)) <= 1
    /\ (calls[c].op = "fetch" /\ Encrypts(c)) =>
         Cardinality(RequestsOf(c)) = 1
    /\ (calls[c].op = "store" /\ calls[c].passed.file # NoFile
          /\ Encrypts(c)) =>
         Cardinality(RequestsOf(c)) = 1
    /\ calls[c].pc = "done" =>
         \A r \in RequestsOf(c) : requests[r].state # "pending"

\* a store whose result had no fingerprint is rejected and has handed
\* sendPost one request
C15_Witness ==
  \E c \in Calls :
    /\ calls[c].op = "store"
    /\ NoFingerprintAnswer(c)
    /\ Reacted(c)
    /\ calls[c].promise.state = "rejected"
    /\ Cardinality(RequestsOf(c)) = 1

\* the invocations of storeFromPath
PathCalls == {c \in Calls : calls[c].op = "storeFromPath"}

\* C16: storeFromPath hands nothing on while the read is pending; once the
\* whole file is read it calls store exactly once (one request, the
\* identity being encrypted), with the bytes read as file, the caller's
\* userId, userToken and policy, and the caller's logger
C16_ReadsThenStoresOnce ==
  \A c \in PathCalls :
    LET args == calls[c].passed
    IN /\ calls[c].read.state = "pending" => RequestsOf(c) = {}
       /\ Cardinality(RequestsOf(c)) <= 1
       /\ (calls[c].read.state = "fulfilled" /\ calls[c].pc # "readFile"
             /\ Encrypts(c))
            => Cardinality(RequestsOf(c)) = 1
       /\ heap[calls[c].args].userId = args.userId
       /\ heap[calls[c].args].userToken = args.userToken
       /\ heap[calls[c].args].policy = args.policy
       /\ \A r \in RequestsOf(c) :
            /\ calls[c].read.state = "fulfilled"
            /\ calls[c].read.data = FileSystem(calls[c].path).data
            /\ requests[r].request.method = "POST"
            /\ Base64Decode(requests[r].request.payload.file.d)
                 = FileSystem(calls[c].path).data
            /\ requests[r].request.context.userId = Str(args.userId)
            /\ requests[r].request.payload.encrypted_user_id_and_token
                 = encryptUserIdAndToken(args.userId, args.userToken)
            /\ requests[r].request.payload.policy = Normalized(args.policy)
            /\ requests[r].request.logger = calls[c].logger

\* a storeFromPath of the image, called with an argument object that held a
\* string as file, has posted the four bytes of the image
C16_Witness ==
  \E c \in PathCalls :
    /\ calls[c].path = "/test-data/image.png"
    /\ calls[c].passed.file = Text(<<116, 233>>)
    /\ heap[calls[c].args].file = Buf(<<137, 80, 0, 255>>)
    /\ \E r \in RequestsOf(c) :
         Base64Decode(requests[r].request.payload.file.d)
           = <<137, 80, 0, 255>>

\* C17: when the read fails, storeFromPath rejects with the error of the
\* filesystem as it is, store is never invoked and nothing is handed to the
\* transport
C17_ReadFailureSurfaces ==
  \A c \in PathCalls :
    calls[c].read.state = "rejected" =>
      /\ ~StoreInvoked(c)
      /\ StorePromise(c) = Unsettled
      /\ RequestsOf(c) = {}
      /\ calls[c].promise
           \in {Unsettled, Rejected(FileSystem(calls[c].path).error)}
      /\ calls[c].pc = "done" =>
           /\ calls[c].promise = Rejected(FileSystem(calls[c].path).error)
           /\ calls[c].promise.error.name # FBUserFileStoreClientError
           /\ calls[c].promise.error.code \in {Str("ENOENT"), Str("EISDIR")}

\* a storeFromPath of a directory is rejected with EISDIR and nothing was
\* handed to the transport
C17_Witness ==
  \E c \in PathCalls :
    /\ calls[c].path = "/test-data"
    /\ calls[c].pc = "done"
    /\ calls[c].promise = Rejected(EISDIR)
    /\ requests = <<>>

\* no other invocation was given the argument object of call c
OwnArgs(c) ==
  \A d \in Calls \ {c} :
    calls[d].op = "getFetchUrl" \/ calls[d].args # calls[c].args

\* the request call c hands over when nothing else runs
LoneRequest(c) ==
  CASE calls[c].op = "fetch" ->
         fetchRequest(client, calls[c].passed, calls[c].logger)
    [] calls[c].op = "store" ->
         storeRequest(client, calls[c].passed, calls[c].logger)
    [] calls[c].op = "storeFromPath" ->
         storeRequest(client,
                      [calls[c].passed EXCEPT
                         !.file = Buf(FileSystem(calls[c].path).data)],
                      calls[c].logger)

\* what the argument object of call c holds when nothing else runs
LoneArgs(c) ==
  IF /\ calls[c].op = "storeFromPath"
     /\ calls[c].pc # "readFile"
     /\ FileSystem(calls[c].path).found
    THEN [calls[c].passed EXCEPT
            !.file = Buf(FileSystem(calls[c].path).data)]
  ELSE calls[c].passed

\* what call c, finished, has come to when nothing else runs, given the
\* answer to its own request
LoneOutcome(c) ==
  CASE calls[c].op = "fetch" /\ calls[c].request # 0 ->
         Then(requests[calls[c].request],
              fetchThen(requests[calls[c].request].json))
    [] calls[c].op = "fetch" /\ calls[c].request = 0 ->
         Thrown(EncryptError)
    [] calls[c].op = "store" /\ calls[c].request # 0 ->
         Then(requests[calls[c].request],
              storeThen(client, requests[calls[c].request].json))
    [] calls[c].op = "store" /\ calls[c].request = 0 ->
         Thrown(storeError(calls[c].passed))
    [] calls[c].op = "storeFromPath" /\ calls[c].request # 0 ->
         FulfilledUndefined
    [] calls[c].op = "storeFromPath" /\ calls[c].request = 0 ->
         IF FileSystem(calls[c].path).found
           THEN Rejected(storeError(LoneArgs(c)))
         ELSE Rejected(FileSystem(calls[c].path).error)
    [] OTHER -> Unsettled

\* C18: however invocations interleave, an invocation with an argument
\* object of its own hands over the request, leaves in its argument object
\* and comes to the outcome that it does when it runs alone
C18_CallsAreIndependent ==
  \A c \in Calls :
    OwnArgs(c) =>
      /\ RequestsOf(c) \subseteq {calls[c].request}
      /\ \A r \in RequestsOf(c) : requests[r].request = LoneRequest(c)
      /\ heap[calls[c].args] = LoneArgs(c)
      /\ calls[c].pc = "done" => calls[c].promise = LoneOutcome(c)

\* two users' invocations overlap: the first, a storeFromPath, still has its
\* request in flight while the second, a store of the other user, has
\* resolved with the result of its own request
C18_Witness ==
  /\ Len(calls) >= 2
  /\ calls[1].op = "storeFromPath"
  /\ calls[1].passed.userId = "testUserId"
  /\ calls[1].request # 0
  /\ requests[calls[1].request].state = "pending"
  /\ calls[2].op = "store"
  /\ calls[2].passed.userId = "otherUserId"
  /\ calls[2].pc = "done"
  /\ calls[2].promise = FulfilledJson(requests[calls[2].request].json)
  /\ requests[calls[2].request].request.context.userId
       = Str("otherUserId")
  /\ requests[calls[1].request].request.context.userId
       = Str("testUserId")

\* C19: whatever was called on it since, successful or failed, the instance
\* is as the constructor made it: serviceSecret, serviceToken, serviceSlug,
\* url, maxSize and expires are those of construction
C19_ConfigurationUnchanged ==
  client.constructed =>
    /\ client = constructor(given.serviceSecret, given.serviceToken,
                            given.serviceSlug, given.userFileStoreUrl,
                            given.options).instance
    /\ client.serviceSecret = given.serviceSecret
    /\ client.serviceToken = given.serviceToken
    /\ client.serviceSlug = given.serviceSlug
    /\ client.serviceUrl = given.userFileStoreUrl

\* after a store that succeeded under a policy with limits of its own and
\* a storeFromPath whose store failed, the instance has the default limits
C19_Witness ==
  /\ client.maxSize = Num(defaultMaxSize)
  /\ client.expires = Num(defaultExpires)
  /\ \E c \in Calls, d \in Calls :
       /\ calls[c].op = "store"
       /\ calls[c].passed.policy.max_size = Num(102400)
       /\ calls[c].pc = "done"
       /\ calls[c].promise.state = "fulfilled"
       /\ calls[d].op = "storeFromPath"
       /\ calls[d].pc = "done"
       /\ calls[d].inner.state = "rejected"

\* what request r carries in the clear, by place: the url template, the
\* values of the url context and the limits of the policy
InTheClear(r) ==
  [url |-> Str(requests[r].request.url),
   serviceSlug |-> requests[r].request.context.serviceSlug,
   userId |-> requests[r].request.context.userId,
   fingerprint |-> requests[r].request.context.fingerprint,
   max_size |-> requests[r].request.payload.policy.max_size,
   expires |-> requests[r].request.payload.policy.expires]

\* C20 as stated: in every request handed to the transport the userId and
\* the userToken of the caller appear nowhere in the clear
C20_NoRawIdentifiers ==
  \A r \in 1..Len(requests) :
    LET clear == InTheClear(r)
    IN \A place \in DOMAIN clear :
         /\ clear[place] # Str(calls[requests[r].call].passed.userToken)
         /\ clear[place] # Str(calls[requests[r].call].passed.userId)

\* C20 amended: the userToken appears nowhere in the clear, and the userId
\* appears in the clear only as the userId of the url context
C20_NoRawToken ==
  \A r \in 1..Len(requests) :
    /\ requests[r].request.payload.encrypted_user_id_and_token
         = encryptUserIdAndToken(calls[requests[r].call].passed.userId,
                                 calls[requests[r].call].passed.userToken)
    /\ LET clear == InTheClear(r)
       IN \A place \in DOMAIN clear :
            /\ clear[place] # Str(calls[requests[r].call].passed.userToken)
            /\ clear[place] = Str(calls[requests[r].call].passed.userId)
                 => place = "userId"

\* a fetch and a store of the test user have each handed over a request
\* with the user id in its url context
C20_Witness ==
  \E r \in FetchRequests, p \in StoreRequests :
    /\ calls[requests[r].call].passed.userToken = "testUserToken"
    /\ calls[requests[p].call].passed.userToken = "testUserToken"
    /\ InTheClear(r).userId = Str("testUserId")
    /\ InTheClear(p).userId = Str("testUserId")

\* C21: a request handed to the transport carries the identity already
\* encrypted; a fetch or store whose encryptUserIdAndToken fails, and a
\* store whose file cannot be normalized, hands the transport nothing
C21_EncryptsBeforeTransport ==
  \A c \in Calls :
    /\ \A r \in RequestsOf(c) :
         /\ Encrypts(c)
         /\ requests[r].request.payload.encrypted_user_id_and_token
              = encryptUserIdAndToken(calls[c].passed.userId,
                                      calls[c].passed.userToken)
    /\ ~Encrypts(c) => RequestsOf(c) = {} /\ calls[c].request = 0
    /\ (calls[c].op = "store" /\ calls[c].passed.file = NoFile) =>
         RequestsOf(c) = {} /\ calls[c].request = 0

\* a store of a file for a token that cannot be encrypted has thrown and
\* nothing was handed to the transport
C21_Witness ==
  \E c \in Calls :
    /\ calls[c].op = "store"
    /\ calls[c].passed.file = Buf(<<255, 0>>)
    /\ calls[c].passed.userToken = "badUserToken"
    /\ calls[c].pc = "done"
    /\ calls[c].promise = Thrown(EncryptError)
    /\ requests = <<>>

\* two invocations of storeFromPath on one argument object with two paths
Racing(c, d) ==
  /\ c # d
  /\ calls[c].args = calls[d].args
  /\ calls[c].path # calls[d].path

\* the content of the file request r carries
Carried(r) == Base64Decode(requests[r].request.payload.file.d)

\* C22: of two storeFromPath invocations on one argument object with
\* different paths, in whatever order the reads arrive, the store request
\* of each carries the content of the file at its own path, never the
\* content of the other's
C22_SharedArgsOwnFile ==
  \A c \in PathCalls, d \in PathCalls :
    Racing(c, d) =>
      \A r \in RequestsOf(c) :
        /\ Carried(r) = FileSystem(calls[c].path).data
        /\ Carried(r) # FileSystem(calls[d].path).data

\* two storeFromPath invocations on one argument object: the reads of both
\* had arrived, the second invocation stored first, and each request
\* carries the file of its own path
C22_Witness ==
  \E c \in PathCalls, d \in PathCalls :
    /\ c < d
    /\ Racing(c, d)
    /\ calls[c].path = "/test-data/test-file"
    /\ calls[d].path = "/test-data/image.png"
    /\ calls[c].request # 0
    /\ calls[d].request # 0
    /\ calls[d].request < calls[c].request
    /\ Carried(calls[c].request) = <<116, 195, 169>>
    /\ Carried(calls[d].request) = <<137, 80, 0, 255>>

\* the invocations that call store
StoreCalls == {c \in Calls : calls[c].op \in {"store", "storeFromPath"}}

\* C23: the policy of the caller's argument object is, whatever became of
\* the store, what it was when store was called; what the filestore is
\* sent is a filled-in and trimmed copy
C23_PolicyUntouched ==
  \A c \in StoreCalls :
    /\ heap[calls[c].args].policy = calls[c].passed.policy
    /\ \A r \in RequestsOf(c) :
         requests[r].request.payload.policy
           = Normalized(calls[c].passed.policy)

\* a store has resolved whose caller still holds the policy with only an
\* empty allowed_types, while the filestore was sent the instance's limits
\* and no allowed_types
C23_Witness ==
  \E c \in StoreCalls :
    /\ calls[c].op = "store"
    /\ calls[c].pc = "done"
    /\ calls[c].promise.state = "fulfilled"
    /\ heap[calls[c].args].policy = Policy(Absent, Absent, Arr(<<>>))
    /\ requests[calls[c].request].request.payload.policy
         = Policy(client.maxSize, client.expires, NoArray)

\* no surrogate of the string stands without its partner
WellFormed(s) == \A i \in DOMAIN s : s[i] < 55296 \/ s[i] > 57343

\* the strings s that a store before the fetch of call c was given and
\* whose payload file is what the filestore has answered that fetch with
RoundTripped(c) ==
  {calls[requests[p].call].passed.file.d :
     p \in {q \in StoreRequests :
              /\ q < calls[c].request
              /\ calls[requests[q].call].op = "store"
              /\ calls[requests[q].call].passed.file.k = "string"
              /\ requests[calls[c].request].state = "fulfilled"
              /\ requests[calls[c].request].json.file
                   = requests[q].request.payload.file}}

FetchCalls ==
  {c \in Calls : calls[c].op = "fetch" /\ calls[c].request # 0}

\* C24 as stated: a fetch that the filestore answers with the file a store
\* before it sent for the string s resolves with s, whatever the string
C24_RoundTrip ==
  \A c \in FetchCalls :
    \A s \in RoundTripped(c) :
      /\ calls[c].promise \in {Unsettled, FulfilledText(s)}
      /\ Reacted(c) => calls[c].promise = FulfilledText(s)

\* C24, amended: a fetch that the filestore answers with the file a store
\* before it sent for the string s resolves with s when no surrogate of s
\* stands alone, and with s where U+FFFD takes the place of every such
\* surrogate otherwise
C24_WellFormedRoundTrip ==
  \A c \in FetchCalls :
    \A s \in RoundTripped(c) :
      LET t == [i \in DOMAIN s |->
                  IF WellFormed(<<s[i]>>) THEN s[i] ELSE Replacement]
      IN /\ calls[c].promise \in {Unsettled, FulfilledText(t)}
         /\ Reacted(c) => calls[c].promise = FulfilledText(t)
         /\ WellFormed(s) => t = s

\* a fetch answered with what the store of a five-byte, two-character
\* string sent has resolved with that string
C24_Witness ==
  \E c \in FetchCalls :
    /\ Reacted(c)
    /\ <<128512, 116>> \in RoundTripped(c)
    /\ calls[c].promise = FulfilledText(<<128512, 116>>)

====
